---- MODULE Spec2Model ----
(***************************************************************************)
(* The four-stage pipeline driver of auto_process.py: trace -> compress -> *)
(* fine-tune -> export.  One action per block of the script's __main__;    *)
(* the collaborators (experiment registry, remote compression service,     *)
(* distributed launcher, trainer, ONNX toolchain) are the environment.     *)
(* Learning rates are integers in units of 1e-5 so that `*= 0.1` is an     *)
(* exact division by ten.                                                  *)
(***************************************************************************)
EXTENDS Integers, Sequences, FiniteSets, TLC

\* ---------------------------------------------------------------- bounds
MaxDevices == 2
NumLr == 2

\* ------------------------------------------------------- optional values
None == <<>>
Some(x) == <<x>>
Val(o) == o[1]

\* ------------------------------------------------------------ input sets
LrValues == {10 * k : k \in 1..NumLr}
CkptNames == {"best_ckpt.pth", "latest_ckpt.pth"}
Compressions == {<<"PR_L2", 5>>, <<"FD_SVD", 3>>}

VARIABLES
    cli,                    \* the parsed command line (never assigned after parse_args)
    env,                    \* what the collaborators hold: experiments, devices
    pc,                     \* position of the script
    error,                  \* the uncaught exception that ended the run, "" while none
    exp,                    \* the script's variable exp
    experiment_name,        \* args.experiment_name
    COMPRESSED_MODEL_NAME,
    OUTPUT_PATH,
    compressed_path,
    head_path,
    num_gpu,
    ckpt_file,
    check,                  \* the simplifier's validation result
    files,                  \* checkpoint files present in the run's output directories
    writes,                 \* every artifact write of the run, in order
    remote,                 \* every request made to the compression service, in order
    launched,               \* every call of launch(), in order
    train_exc,              \* an exception was raised inside main and caught by logger.catch
    log                     \* the logger.info lines of __main__, in order

vars == <<cli, env, pc, error, exp, experiment_name, COMPRESSED_MODEL_NAME, OUTPUT_PATH,
          compressed_path, head_path, num_gpu, ckpt_file, check, files, writes, remote,
          launched, train_exc, log>>

\* --------------------------------------------------------- collaborators
MkExp(n, lr) ==
    [exp_name |-> n, basic_lr_per_img |-> lr, output_dir |-> "./YOLOX_outputs",
     compressed_model |-> None, head |-> None]

\* get_exp(exp_file, exp_name): the experiment of the file when a file is given,
\* otherwise the experiment registered under the name; None when it raises.
GetExp(exp_file, exp_name) ==
    IF exp_file # None THEN Some(MkExp("custom", env.file_lr))
    ELSE IF exp_name = None THEN None
    ELSE IF Val(exp_name) = "yolox_s" THEN Some(MkExp("yolox_s", env.name_lr))
    ELSE IF Val(exp_name) = "yolox_s-netspresso" /\ env.ns_lr # None
         THEN Some(MkExp("yolox_s_netspresso", Val(env.ns_lr)))
    ELSE None

\* exp.merge(args.opts): the options may override the learning rate.
Merge(e, opts) ==
    IF opts = None THEN e ELSE [e EXCEPT !.basic_lr_per_img = Val(opts)]

\* os.path.join of two components.
Join(a, b) ==
    IF a = "" THEN b
    ELSE IF SubSeq(a, Len(a), Len(a)) = "/" THEN a \o b
    ELSE a \o "/" \o b

\* The file a relative path names: a leading "./" is the working directory.
NormPath(p) ==
    IF Len(p) >= 2 /\ SubSeq(p, 1, 2) = "./" THEN SubSeq(p, 3, Len(p)) ELSE p

\* Where the trainer saves its checkpoints: <output_dir>/<experiment_name>/<name>.
TrainerCkptPath(e, expn, name) == Join(Join(e.output_dir, expn), name)

\* f-string formatting of the float ratio (kept in tenths): 5 is 0.5.
FormatFloat(r) == "0." \o ToString(r)

\* ------------------------------------------------- the script's own logic
ExperimentNameDefaultAlwaysExp(expn, e) == Some(e.exp_name)

\* if not args.experiment_name: args.experiment_name = exp.exp_name
ExperimentNameDefault(expn, e) ==
    IF expn = None \/ Val(expn) = "" THEN Some(e.exp_name) ELSE expn

FxSavePathAsHead(e) == "./" \o e.exp_name \o "_head.pt"

FxSavePath(e) == "./" \o e.exp_name \o "_fx.pt"

HeadSavePathNoSuffix(e) == "./" \o e.exp_name \o ".pt"

HeadSavePath(e) == "./" \o e.exp_name \o "_head.pt"

UploadModelPathHead(e) == e.exp_name \o "_head.pt"

\* UPLOAD_MODEL_PATH
UploadModelPath(e) == e.exp_name \o "_fx.pt"

CompressedModelNameNoRatio(n, m, r) == n \o "_" \o m

\* COMPRESSED_MODEL_NAME = f'{UPLOAD_MODEL_NAME}_{COMPRESSION_METHOD}_{RECOMMENDATION_RATIO}'
CompressedModelName(n, m, r) == n \o "_" \o m \o "_" \o FormatFloat(r)

\* head_path
HeadPath(e) == e.exp_name \o "_head.pt"

\* args.name + '-netspresso'; None stands for the TypeError of None + str.
NetspressoName(name) ==
    IF name = None THEN None ELSE Some(Val(name) \o "-netspresso")

ScaleLrForgotten(lr) == lr

\* exp.basic_lr_per_img *= 0.1
ScaleLr(lr) == lr \div 10

\* num_gpu = get_num_devices() if args.devices is None else args.devices
NumGpu(devices, available) ==
    IF devices = None THEN available ELSE Val(devices)

DevicesOkOffByOne(n, available) == n <= available + 1

\* assert num_gpu <= get_num_devices()
DevicesOk(n, available) == n <= available

CkptFilePrefersLatest(dir, present) ==
    IF Join(dir, "latest_ckpt.pth") \in present
    THEN Join(dir, "latest_ckpt.pth") ELSE Join(dir, "best_ckpt.pth")

\* ckpt_file: best_ckpt.pth, or latest_ckpt.pth if that is not a file
CkptFile(dir, present) ==
    IF Join(dir, "best_ckpt.pth") \in present
    THEN Join(dir, "best_ckpt.pth") ELSE Join(dir, "latest_ckpt.pth")

\* The training entry point, decorated with @logger.catch: an exception of
\* trainer.train() is logged and swallowed, main returns normally.
main(train_raises) == [propagates |-> FALSE, caught |-> train_raises]

Crash(e) == pc' = "crashed" /\ error' = e

\* ------------------------------------------------------------------ Init
Init ==
    /\ cli \in {c \in [exp_file : {None, Some("exps/custom.py")},
                       name : {None, Some("yolox_s")},
                       experiment_name : {None, Some(""), Some("run1")},
                       opts : {None} \cup {Some(l) : l \in LrValues},
                       devices : {None} \cup {Some(d) : d \in 1..(MaxDevices + 1)},
                       no_onnxsim : BOOLEAN,
                       compression_method : {"PR_L2", "FD_SVD"},
                       compression_ratio : {3, 5}] :
                  <<c.compression_method, c.compression_ratio>> \in Compressions}
    \* Experiments the run never looks up are fixed, the others range freely.
    /\ env \in {e \in [file_lr : LrValues,
                       name_lr : LrValues,
                       ns_lr : {None} \cup {Some(l) : l \in LrValues},
                       num_devices : 1..MaxDevices] :
                  /\ cli.exp_file = None => e.file_lr = 10
                  /\ (cli.exp_file # None \/ cli.name = None) =>
                        (e.name_lr = 10 /\ e.ns_lr = None)}
    /\ pc = "start"
    /\ error = ""
    /\ exp = None
    /\ experiment_name = cli.experiment_name
    /\ COMPRESSED_MODEL_NAME = None
    /\ OUTPUT_PATH = None
    /\ compressed_path = None
    /\ head_path = None
    /\ num_gpu = None
    /\ ckpt_file = None
    /\ check = None
    /\ files = {}
    /\ writes = <<>>
    /\ remote = <<>>
    /\ launched = <<>>
    /\ train_exc = FALSE
    /\ log = <<>>

\* --------------------------------------------------------------- actions

\* lines 199-205
LoadExp ==
    /\ pc = "start"
    /\ log' = Append(log, "yolox to fx graph start.")
    /\ LET r == GetExp(cli.exp_file, cli.name) IN
         IF r = None
         THEN /\ Crash("get_exp")
              /\ UNCHANGED <<exp, experiment_name>>
         ELSE /\ exp' = Some(Merge(Val(r), cli.opts))
              /\ experiment_name' = ExperimentNameDefault(experiment_name, Val(exp'))
              /\ pc' = "weights"
              /\ UNCHANGED error
    /\ UNCHANGED <<cli, env, COMPRESSED_MODEL_NAME, OUTPUT_PATH, compressed_path, head_path,
                   num_gpu, ckpt_file, check, files, writes, remote, launched, train_exc>>

\* lines 207-217
LoadWeights ==
    /\ pc = "weights"
    /\ \E ok \in BOOLEAN :
         IF ok
         THEN /\ log' = Append(log, "loading checkpoint done.")
              /\ pc' = "trace"
              /\ UNCHANGED error
         ELSE /\ Crash("torch.load(weight_path)")
              /\ UNCHANGED log
    /\ UNCHANGED <<cli, env, exp, experiment_name, COMPRESSED_MODEL_NAME, OUTPUT_PATH,
                   compressed_path, head_path, num_gpu, ckpt_file, check, files, writes,
                   remote, launched, train_exc>>

\* lines 219-222
TraceAndSave ==
    /\ pc = "trace"
    /\ writes' = Append(writes, [path |-> FxSavePath(Val(exp)), what |-> "traced_model"])
    /\ log' = Append(log, "generated model to compress model " \o Val(exp).exp_name \o "_fx.pt")
    /\ pc' = "head"
    /\ UNCHANGED <<cli, env, error, exp, experiment_name, COMPRESSED_MODEL_NAME, OUTPUT_PATH,
                   compressed_path, head_path, num_gpu, ckpt_file, check, files, remote,
                   launched, train_exc>>

\* lines 224-228
SaveHead ==
    /\ pc = "head"
    /\ writes' = Append(writes, [path |-> HeadSavePath(Val(exp)), what |-> "head"])
    /\ log' = log \o <<"generated model to model's head " \o Val(exp).exp_name \o "_head.pt",
                       "yolox to fx graph end.">>
    /\ pc' = "auth"
    /\ UNCHANGED <<cli, env, error, exp, experiment_name, COMPRESSED_MODEL_NAME, OUTPUT_PATH,
                   compressed_path, head_path, num_gpu, ckpt_file, check, files, remote,
                   launched, train_exc>>

\* lines 233-235
Authenticate ==
    /\ pc = "auth"
    /\ log' = Append(log, "Compression step start.")
    /\ remote' = Append(remote, [op |-> "authenticate"])
    /\ \E ok \in BOOLEAN :
         IF ok THEN pc' = "upload" /\ UNCHANGED error
               ELSE Crash("authenticate")
    /\ UNCHANGED <<cli, env, exp, experiment_name, COMPRESSED_MODEL_NAME, OUTPUT_PATH,
                   compressed_path, head_path, num_gpu, ckpt_file, check, files, writes,
                   launched, train_exc>>

\* lines 237-248
UploadModel ==
    /\ pc = "upload"
    /\ remote' = Append(remote, [op |-> "upload_model",
                                 model_name |-> Val(exp).exp_name,
                                 file_path |-> UploadModelPath(Val(exp))])
    /\ \E ok \in BOOLEAN :
         IF ok THEN pc' = "compress" /\ UNCHANGED error
               ELSE Crash("upload_model")
    /\ UNCHANGED <<cli, env, exp, experiment_name, COMPRESSED_MODEL_NAME, OUTPUT_PATH,
                   compressed_path, head_path, num_gpu, ckpt_file, check, files, writes,
                   launched, train_exc, log>>

\* lines 250-264
RecommendationCompression ==
    /\ pc = "compress"
    /\ COMPRESSED_MODEL_NAME' =
         Some(CompressedModelName(Val(exp).exp_name, cli.compression_method,
                                  cli.compression_ratio))
    /\ OUTPUT_PATH' = Some(Val(COMPRESSED_MODEL_NAME') \o ".pt")
    /\ remote' = Append(remote, [op |-> "recommendation_compression",
                                 model_name |-> Val(COMPRESSED_MODEL_NAME'),
                                 compression_method |-> cli.compression_method,
                                 recommendation_ratio |-> cli.compression_ratio,
                                 output_path |-> Val(OUTPUT_PATH')])
    /\ \E ok \in BOOLEAN :
         IF ok
         THEN /\ writes' = Append(writes, [path |-> Val(OUTPUT_PATH'),
                                           what |-> "compressed_model"])
              /\ log' = Append(log, "Compression step end.")
              /\ pc' = "ft_exp"
              /\ UNCHANGED error
         ELSE /\ Crash("recommendation_compression")
              /\ UNCHANGED <<writes, log>>
    /\ UNCHANGED <<cli, env, exp, experiment_name, compressed_path, head_path, num_gpu,
                   ckpt_file, check, files, launched, train_exc>>

\* lines 269-281
LoadFineTuneExp ==
    /\ pc = "ft_exp"
    /\ log' = Append(log, "Fine-tuning step start.")
    /\ compressed_path' = OUTPUT_PATH
    /\ head_path' = Some(HeadPath(Val(exp)))
    /\ LET n == NetspressoName(cli.name)
           r == GetExp(cli.exp_file, n)
       IN  IF n = None
           THEN Crash("TypeError: NoneType + str") /\ UNCHANGED exp
           ELSE IF r = None
           THEN Crash("get_exp") /\ UNCHANGED exp
           ELSE /\ exp' = Some([Merge(Val(r), cli.opts) EXCEPT
                                  !.basic_lr_per_img = ScaleLr(@),
                                  !.compressed_model = compressed_path',
                                  !.head = head_path'])
                /\ pc' = "devices"
                /\ UNCHANGED error
    /\ UNCHANGED <<cli, env, experiment_name, COMPRESSED_MODEL_NAME, OUTPUT_PATH, num_gpu,
                   ckpt_file, check, files, writes, remote, launched, train_exc>>

\* lines 283-284
CheckDevices ==
    /\ pc = "devices"
    /\ num_gpu' = Some(NumGpu(cli.devices, env.num_devices))
    /\ IF DevicesOk(Val(num_gpu'), env.num_devices)
       THEN pc' = "launch" /\ UNCHANGED error
       ELSE Crash("AssertionError: num_gpu <= get_num_devices()")
    /\ UNCHANGED <<cli, env, exp, experiment_name, COMPRESSED_MODEL_NAME, OUTPUT_PATH,
                   compressed_path, head_path, ckpt_file, check, files, writes, remote,
                   launched, train_exc, log>>

\* lines 286-300, with main (lines 171-189) run by the launcher.  saved: the
\* checkpoints in the trainer's directory once the job is over; a training
\* that runs to its end has saved latest_ckpt.pth at least.
Launch ==
    /\ pc = "launch"
    /\ launched' = Append(launched, [num_gpu |-> Val(num_gpu), exp |-> Val(exp),
                                     experiment_name |-> Val(experiment_name)])
    /\ \E launch_fails \in BOOLEAN, train_raises \in BOOLEAN, saved \in SUBSET CkptNames :
         IF launch_fails
         THEN /\ ~train_raises /\ saved = {}
              /\ Crash("launch")
              /\ UNCHANGED <<files, train_exc, log>>
         ELSE /\ ~train_raises => "latest_ckpt.pth" \in saved
              /\ files' = files \cup
                    {TrainerCkptPath(Val(exp), Val(experiment_name), f) : f \in saved}
              /\ IF main(train_raises).propagates
                 THEN /\ Crash("main")
                      /\ UNCHANGED <<train_exc, log>>
                 ELSE /\ train_exc' = main(train_raises).caught
                      /\ log' = Append(log, "Fine-tuning step end.")
                      /\ pc' = "export_exp"
                      /\ UNCHANGED error
    /\ UNCHANGED <<cli, env, exp, experiment_name, COMPRESSED_MODEL_NAME, OUTPUT_PATH,
                   compressed_path, head_path, num_gpu, ckpt_file, check, writes, remote>>

\* lines 305-313
LoadExportExp ==
    /\ pc = "export_exp"
    /\ log' = Append(log, "Export model to onnx format step start.")
    /\ LET n == NetspressoName(cli.name)
           r == GetExp(cli.exp_file, n)
       IN  IF n = None
           THEN Crash("TypeError: NoneType + str") /\ UNCHANGED exp
           ELSE IF r = None
           THEN Crash("get_exp") /\ UNCHANGED exp
           ELSE /\ exp' = Some([Merge(Val(r), cli.opts) EXCEPT
                                  !.compressed_model = compressed_path,
                                  !.head = head_path])
                /\ pc' = "ckpt"
                /\ UNCHANGED error
    /\ UNCHANGED <<cli, env, experiment_name, COMPRESSED_MODEL_NAME, OUTPUT_PATH,
                   compressed_path, head_path, num_gpu, ckpt_file, check, files, writes,
                   remote, launched, train_exc>>

\* lines 315-330
LoadCheckpoint ==
    /\ pc = "ckpt"
    /\ ckpt_file' = Some(CkptFile(Join(Val(exp).output_dir, Val(experiment_name)), files))
    /\ IF Val(ckpt_file') \in files
       THEN \E ok \in BOOLEAN :
              IF ok
              THEN /\ log' = Append(log, "loading checkpoint done.")
                   /\ pc' = "onnx"
                   /\ UNCHANGED error
              ELSE /\ Crash("load_state_dict")
                   /\ UNCHANGED log
       ELSE /\ Crash("FileNotFoundError: ckpt_file")
            /\ UNCHANGED log
    /\ UNCHANGED <<cli, env, exp, experiment_name, COMPRESSED_MODEL_NAME, OUTPUT_PATH,
                   compressed_path, head_path, num_gpu, check, files, writes, remote,
                   launched, train_exc>>

\* lines 332-342
OnnxExport ==
    /\ pc = "onnx"
    /\ writes' = Append(writes, [path |-> Val(COMPRESSED_MODEL_NAME) \o ".onnx",
                                 what |-> "onnx_export"])
    /\ log' = Append(log, "generated onnx model named " \o Val(COMPRESSED_MODEL_NAME) \o ".onnx")
    /\ pc' = "onnxsim"
    /\ UNCHANGED <<cli, env, error, exp, experiment_name, COMPRESSED_MODEL_NAME, OUTPUT_PATH,
                   compressed_path, head_path, num_gpu, ckpt_file, check, files, remote,
                   launched, train_exc>>

\* the block of lines 344-353 with the save moved before the assertion
OnnxSimplifySaveFirst ==
    /\ pc = "onnxsim"
    /\ IF cli.no_onnxsim
       THEN pc' = "finished" /\ UNCHANGED <<error, check, writes, log>>
       ELSE \E c \in BOOLEAN :
              /\ check' = Some(c)
              /\ writes' = Append(writes, [path |-> Val(COMPRESSED_MODEL_NAME) \o ".onnx",
                                           what |-> "onnx_simplified"])
              /\ IF c
                 THEN /\ log' = Append(log, "generated simplified onnx model named "
                                            \o Val(COMPRESSED_MODEL_NAME) \o ".onnx")
                      /\ pc' = "finished"
                      /\ UNCHANGED error
                 ELSE /\ Crash("AssertionError: Simplified ONNX model could not be validated")
                      /\ UNCHANGED log
    /\ UNCHANGED <<cli, env, exp, experiment_name, COMPRESSED_MODEL_NAME, OUTPUT_PATH,
                   compressed_path, head_path, num_gpu, ckpt_file, files, remote, launched,
                   train_exc>>

\* lines 344-353
OnnxSimplify ==
    /\ pc = "onnxsim"
    /\ IF cli.no_onnxsim
       THEN pc' = "finished" /\ UNCHANGED <<error, check, writes, log>>
       ELSE \E c \in BOOLEAN :
              /\ check' = Some(c)
              /\ IF c
                 THEN /\ writes' = Append(writes,
                                          [path |-> Val(COMPRESSED_MODEL_NAME) \o ".onnx",
                                           what |-> "onnx_simplified"])
                      /\ log' = Append(log, "generated simplified onnx model named "
                                            \o Val(COMPRESSED_MODEL_NAME) \o ".onnx")
                      /\ pc' = "finished"
                      /\ UNCHANGED error
                 ELSE /\ Crash("AssertionError: Simplified ONNX model could not be validated")
                      /\ UNCHANGED <<writes, log>>
    /\ UNCHANGED <<cli, env, exp, experiment_name, COMPRESSED_MODEL_NAME, OUTPUT_PATH,
                   compressed_path, head_path, num_gpu, ckpt_file, files, remote, launched,
                   train_exc>>

Next ==
    \/ LoadExp
    \/ LoadWeights
    \/ TraceAndSave
    \/ SaveHead
    \/ Authenticate
    \/ UploadModel
    \/ RecommendationCompression
    \/ LoadFineTuneExp
    \/ CheckDevices
    \/ Launch
    \/ LoadExportExp
    \/ LoadCheckpoint
    \/ OnnxExport
    \/ OnnxSimplify

Spec == Init /\ [][Next]_vars

\* ------------------------------------------------- vocabulary of the claims
\* The experiment name and learning rate configured by the run's original
\* experiment (stage 1) and by the experiment the fine-tuning stage loads,
\* read off the command line and the registry.
OrigName == IF cli.exp_file # None THEN "custom" ELSE "yolox_s"
OrigLr ==
    IF cli.opts # None THEN Val(cli.opts)
    ELSE IF cli.exp_file # None THEN env.file_lr ELSE env.name_lr
FineTuneLr ==
    IF cli.opts # None THEN Val(cli.opts)
    ELSE IF cli.exp_file # None THEN env.file_lr ELSE Val(env.ns_lr)
RatioText == IF cli.compression_ratio = 5 THEN "0.5" ELSE "0.3"
CompressedName == OrigName \o "_" \o cli.compression_method \o "_" \o RatioText
FxFile == OrigName \o "_fx.pt"
HeadFile == OrigName \o "_head.pt"
CompressedFile == CompressedName \o ".pt"
OnnxFile == CompressedName \o ".onnx"
NumWrites(f) == Cardinality({i \in DOMAIN writes : NormPath(writes[i].path) = f})
OnnxWrites == {i \in DOMAIN writes : writes[i].what \in {"onnx_export", "onnx_simplified"}}
Requests(op) == {i \in DOMAIN remote : remote[i].op = op}
InLog(m) == \E i \in DOMAIN log : log[i] = m
DeviceAssertion == "AssertionError: num_gpu <= get_num_devices()"
SimplifyAssertion == "AssertionError: Simplified ONNX model could not be validated"
StageMarks ==
    <<"yolox to fx graph start.", "yolox to fx graph end.",
      "Compression step start.", "Compression step end.",
      "Fine-tuning step start.", "Fine-tuning step end.",
      "Export model to onnx format step start.">>
IsStageMark(m) == \E k \in DOMAIN StageMarks : StageMarks[k] = m
StageLog == SelectSeq(log, IsStageMark)

\* C1: the output_path of every compression request and the path of the
\* compressed artifact is exactly N_M_R.pt, and every write of the ONNX export
\* (raw and simplified) targets exactly N_M_R.onnx, N being the exp_name of the
\* experiment loaded in stage 1.
C1_ArtifactNames ==
    /\ \A i \in Requests("recommendation_compression") :
          remote[i].output_path = OrigName \o "_" \o cli.compression_method
                                           \o "_" \o RatioText \o ".pt"
    /\ \A i \in DOMAIN writes :
          /\ writes[i].what = "compressed_model" => writes[i].path = CompressedFile
          /\ i \in OnnxWrites => writes[i].path = OnnxFile
C1_Witness ==
    /\ pc = "finished"
    /\ check = Some(TRUE)
    /\ cli.compression_method = "FD_SVD"
    /\ Cardinality(OnnxWrites) = 2

\* C2: the export stage loads best_ckpt.pth under <output_dir>/<experiment_name>
\* whenever it exists, latest_ckpt.pth only when best_ckpt.pth does not, and
\* when neither exists the run fails before any ONNX write.
C2_CheckpointChoice ==
    /\ ckpt_file # None =>
          LET dir == Val(exp).output_dir \o "/" \o Val(experiment_name)
              best == dir \o "/best_ckpt.pth"
              latest == dir \o "/latest_ckpt.pth"
          IN  /\ Val(ckpt_file) \in {best, latest}
              /\ best \in files => Val(ckpt_file) = best
              /\ Val(ckpt_file) = latest => best \notin files
              /\ (best \notin files /\ latest \notin files) =>
                    /\ pc = "crashed"
                    /\ error = "FileNotFoundError: ckpt_file"
                    /\ OnnxWrites = {}
    /\ OnnxWrites # {} => (ckpt_file # None /\ Val(ckpt_file) \in files)
C2_Witness ==
    /\ pc = "finished"
    /\ ckpt_file # None
    /\ \E d \in {"run1", "custom", "yolox_s"} :
          /\ Val(ckpt_file) = "./YOLOX_outputs/" \o d \o "/best_ckpt.pth"
          /\ ("./YOLOX_outputs/" \o d \o "/latest_ckpt.pth") \in files

\* C3 as stated: the learning rate handed to the fine-tuning launch is 0.1 times
\* the learning rate configured in the original experiment.
C3_LrOfOriginal ==
    \A i \in DOMAIN launched : 10 * launched[i].exp.basic_lr_per_img = OrigLr
\* C3 amended: the learning rate handed to the fine-tuning launch is 0.1 times
\* the learning rate of the experiment the fine-tuning stage loads (the file's
\* experiment, else the one named <name>-netspresso), merged with the same
\* opts; that is 0.1 times the original's whenever the experiment is resolved
\* by file, the opts set the learning rate, or both experiments configure the
\* same rate.
C3_LrOfFineTuneExp ==
    \A i \in DOMAIN launched :
       /\ 10 * launched[i].exp.basic_lr_per_img = FineTuneLr
       /\ (cli.exp_file # None \/ cli.opts # None \/ Some(env.name_lr) = env.ns_lr)
             => 10 * launched[i].exp.basic_lr_per_img = OrigLr
C3_Witness ==
    /\ launched # <<>>
    /\ cli.exp_file = None
    /\ cli.opts = None
    /\ Some(env.name_lr) # env.ns_lr
    /\ 10 * launched[1].exp.basic_lr_per_img # env.name_lr

\* C4: launch is never called with more workers than available devices; a
\* request above the available count raises before launch and before any
\* training; with no request the worker count is the available count.
C4_DeviceBound ==
    /\ \A i \in DOMAIN launched :
          /\ launched[i].num_gpu <= env.num_devices
          /\ cli.devices = None => launched[i].num_gpu = env.num_devices
    /\ (cli.devices # None /\ Val(cli.devices) > env.num_devices) =>
          /\ launched = <<>>
          /\ ~train_exc
          /\ pc \notin {"launch", "export_exp", "ckpt", "onnx", "onnxsim", "finished"}
          /\ num_gpu # None => (pc = "crashed" /\ error = DeviceAssertion)
C4_Witness ==
    /\ pc = "crashed"
    /\ error = DeviceAssertion
    /\ num_gpu = Some(env.num_devices + 1)

\* C5: with simplification enabled and a false validation check the run aborts
\* at the assertion, the simplified model is never saved (N_M_R.onnx still
\* holds the raw export) and the simplified-model outcome is never logged.
C5_FailedSimplification ==
    (~cli.no_onnxsim /\ check = Some(FALSE)) =>
       /\ pc = "crashed"
       /\ error = SimplifyAssertion
       /\ NumWrites(OnnxFile) = 1
       /\ \A i \in DOMAIN writes : writes[i].what # "onnx_simplified"
       /\ writes[Len(writes)].what = "onnx_export"
       /\ ~InLog("generated simplified onnx model named " \o OnnxFile)
C5_Witness ==
    /\ check = Some(FALSE)
    /\ InLog("generated onnx model named " \o OnnxFile)

\* C6: a failure of authenticate, upload_model or recommendation_compression,
\* or one raised while the fine-tuning job runs (an exception inside main
\* included), ends the pipeline: no later stage runs and the export stage is
\* never reached.
C6_FailureTerminates ==
    /\ error \in {"authenticate", "upload_model", "recommendation_compression", "launch"} =>
          /\ pc = "crashed"
          /\ ~InLog("Export model to onnx format step start.")
          /\ OnnxWrites = {}
    /\ train_exc =>
          /\ ~InLog("Export model to onnx format step start.")
          /\ OnnxWrites = {}

C8_LinearHandoff ==
    /\ Len(StageLog) <= Len(StageMarks)
    /\ StageLog = SubSeq(StageMarks, 1, Len(StageLog))
    /\ Len(launched) <= 1
    /\ \A op \in {"authenticate", "upload_model", "recommendation_compression"} :
          Cardinality(Requests(op)) <= 1
    /\ \A i \in Requests("upload_model") :
          /\ InLog("yolox to fx graph end.")
          /\ \E j \in DOMAIN writes :
                /\ writes[j].what = "traced_model"
                /\ NormPath(writes[j].path) = NormPath(remote[i].file_path)
                /\ NormPath(writes[j].path) = FxFile
    /\ \A i \in DOMAIN launched :
          /\ InLog("Compression step end.")
          /\ \E r \in Requests("recommendation_compression") :
                launched[i].exp.compressed_model = Some(remote[r].output_path)
          /\ \E j \in DOMAIN writes :
                /\ writes[j].what = "head"
                /\ launched[i].exp.head = Some(NormPath(writes[j].path))
    /\ pc \in {"ckpt", "onnx", "onnxsim", "finished"} =>
          /\ InLog("Fine-tuning step end.")
          /\ \E r \in Requests("recommendation_compression") :
                Val(exp).compressed_model = Some(remote[r].output_path)
          /\ \E j \in DOMAIN writes :
                /\ writes[j].what = "head"
                /\ Val(exp).head = Some(NormPath(writes[j].path))
C8_Witness ==
    /\ pc = "finished"
    /\ cli.no_onnxsim
    /\ Len(StageLog) = Len(StageMarks)
    /\ Requests("upload_model") # {}

\* C9: when the run aborts on the device-count assertion, the traced graph,
\* head and compressed files have been written and the upload and compression
\* requests made, while launch was never called and no ONNX file was written.
C9_StateAtDeviceAbort ==
    error = DeviceAssertion =>
       /\ NumWrites(FxFile) = 1
       /\ NumWrites(HeadFile) = 1
       /\ NumWrites(CompressedFile) = 1
       /\ Requests("upload_model") # {}
       /\ Requests("recommendation_compression") # {}
       /\ InLog("Compression step end.")
       /\ launched = <<>>
       /\ ~InLog("Fine-tuning step end.")
       /\ OnnxWrites = {}
C9_Witness ==
    /\ error = DeviceAssertion
    /\ Len(writes) = 3
    /\ Len(remote) = 3
    /\ InLog("Fine-tuning step start.")

\* C10: args.experiment_name is fixed in stage 1 (the command-line name if
\* given, else the exp_name of the original experiment) and never changes
\* afterwards: the name handed to launch and the one the export stage builds
\* the checkpoint paths from are the same.
C10_ExperimentNameFixed ==
    LET expected == IF cli.experiment_name \in {None, Some("")}
                    THEN OrigName ELSE Val(cli.experiment_name)
    IN  /\ exp # None => experiment_name = Some(expected)
        /\ \A i \in DOMAIN launched : launched[i].experiment_name = expected
        /\ ckpt_file # None =>
              /\ launched # <<>>
              /\ Val(ckpt_file) \in
                    {"./YOLOX_outputs/" \o launched[1].experiment_name \o "/" \o f :
                        f \in CkptNames}
C10_Witness ==
    /\ ckpt_file # None
    /\ cli.experiment_name = None
    /\ cli.exp_file = None
    /\ Val(exp).exp_name = "yolox_s_netspresso"
    /\ launched[1].experiment_name = "yolox_s"

====
